---------------------------- MODULE Spec2Model ----------------------------
(***************************************************************************)
(* The in-process finance ledger (src/unnamed/part_005) and the governance *)
(* voting engine (src/unnamed/part_007) of realfi, as state machines.      *)
(*                                                                         *)
(* Money is a JavaScript number in the source.  Here it is an integer      *)
(* count of hundredths of one G$ and request amounts are multiples of two  *)
(* G$, so that the 0.5% fee is an exact integer.  Time is counted in ticks *)
(* of twelve hours.  Random ids, wallet addresses and payment links are    *)
(* left out of the records.                                                *)
(***************************************************************************)
EXTENDS Integers, Sequences, FiniteSets, TLC

VARIABLES
    now,            \* the wall clock read by new Date() / Date.now()
    userBalances,   \* part_005: Map userId -> balance record
    transactions,   \* part_005: Map userId -> array of transactions
    proposals,      \* part_007: Map proposalId -> proposal
    votes,          \* part_007: Map `${propId}_${userId}` -> vote
    crowd,          \* vote records of user ids outside Users, counted per choice
    communityGoals, \* part_007: Map goalId -> community goal
    contributed,    \* history: successful contributions per (goal, user)
    listed,         \* part_005: data.transactions of the last get-transactions
    dash,           \* index.ts: the running getDashboardData call
    voteWins,       \* history: successful vote responses per (proposal, user)
    tallied,        \* history: tally increments made for (proposal, user)
    inflight,       \* requests whose handler is suspended at `await request.json()`
    resp            \* the response of the request handled by the last step

vars == <<now, userBalances, transactions, proposals, votes, crowd,
          communityGoals, contributed, listed, dash, voteWins, tallied, inflight,
          resp>>

ledgerVars == <<userBalances, transactions>>
govVars    == <<proposals, votes, crowd, voteWins, tallied>>
goalVars   == <<communityGoals, contributed>>

(***************************************************************************)
(* Bounds of the model.                                                    *)
(***************************************************************************)
MaxTx         == 2     \* transactions recorded in one behaviour
MaxLedgerTime == 1     \* last clock value of the ledger specifications
MaxGovTime    == 28    \* last clock value of the governance specifications
MaxCrowd      == 9     \* crowd vote records per proposal
MaxContrib    == 3     \* contributions made in one behaviour
MaxSkew       == 1     \* ticks between two readings of the clock in a handler
MaxWork       == 1     \* entries stored when both APIs run in one behaviour

Users     == {"u1", "u2"}
Amounts   == {-1000, 1000}             \* -10 and 10 G$
Proposals == {"p1"}
Slots     == {1, 2}

(***************************************************************************)
(* Program constants.                                                      *)
(***************************************************************************)
Cent        == 100                \* hundredths per G$
\* a variant that pays twice the daily income
ubiAmount_double == 20 * Cent

ubiAmount   == 10 * Cent          \* G$ 10 daily UBI
FeePerMille == 5                  \* fee (0.5%)
interestRate == 5
Day         == 2                  \* 24 * 60 * 60 * 1000 ms, in ticks
VotingWindow == 7 * Day           \* 7 * 24 * 60 * 60 * 1000 ms
QuorumMin   == 10
QuorumSpan  == 20
NoTime      == -1                 \* a timestamp field that is not set

(***************************************************************************)
(* Maps and responses.                                                     *)
(***************************************************************************)
MapSet(m, k, v) == (k :> v) @@ m

NoReq == [action |-> "none", userId |-> "", amount |-> 0, target |-> "",
          voteType |-> ""]

Request(action, u, amount, target, voteType) ==
    [action |-> action, userId |-> u, amount |-> amount, target |-> target,
     voteType |-> voteType]

NoResp == [action |-> "none", userId |-> "", ok |-> TRUE, status |-> 0,
           error |-> "", amount |-> 0, target |-> "", voteType |-> ""]

Success(action, u, amount, target, voteType) ==
    [action |-> action, userId |-> u, ok |-> TRUE, status |-> 200,
     error |-> "", amount |-> amount, target |-> target, voteType |-> voteType]

Failure(action, u, amount, target, voteType, status, error) ==
    [action |-> action, userId |-> u, ok |-> FALSE, status |-> status,
     error |-> error, amount |-> amount, target |-> target, voteType |-> voteType]

TotalTx == LET RECURSIVE Sum(_)
               Sum(S) == IF S = {} THEN 0
                         ELSE LET u == CHOOSE x \in S : TRUE
                              IN  Len(transactions[u]) + Sum(S \ {u})
           IN  Sum(DOMAIN transactions)

\* if (!transactions.has(userId)) transactions.set(userId, []); ...push(tx)
PushTx(u, tx) ==
    MapSet(transactions, u,
           Append(IF u \in DOMAIN transactions THEN transactions[u] ELSE <<>>, tx))

(***************************************************************************)
(* Finance API, POST.                                                      *)
(***************************************************************************)
DefaultBalance == [gBalance |-> 0, usdBalance |-> 0, savings |-> 0,
                   wallet |-> FALSE, lastClaim |-> NoTime]

\* a variant that initialises the balance on every connection
ConnectHumanWallet_reset(u) ==
    /\ userBalances' = MapSet(userBalances, u,
                              [DefaultBalance EXCEPT !.wallet = TRUE])
    /\ UNCHANGED transactions
    /\ resp' = Success("connect-human-wallet", u, 0, "", "")

\* if (!userBalances.has(userId)) userBalances.set(userId, {...zeros...})
ConnectHumanWallet(u) ==
    /\ userBalances' = IF u \in DOMAIN userBalances THEN userBalances
                       ELSE MapSet(userBalances, u,
                                   [DefaultBalance EXCEPT !.wallet = TRUE])
    /\ UNCHANGED transactions
    /\ resp' = Success("connect-human-wallet", u, 0, "", "")

ClaimUbi(u) ==
    LET userBalance == IF u \in DOMAIN userBalances THEN userBalances[u]
                       ELSE DefaultBalance
        newBalance  == userBalance.gBalance + ubiAmount
        transaction == [type |-> "ubi_claim", amount |-> ubiAmount,
                        timestamp |-> now, status |-> "completed"]
    IN  /\ TotalTx < MaxTx
        /\ userBalances' = MapSet(userBalances, u,
               [userBalance EXCEPT !.gBalance = newBalance, !.lastClaim = now])
        /\ transactions' = PushTx(u, transaction)
        /\ resp' = Success("claim-ubi", u, ubiAmount, "", "")

Fee(amount) == (amount * FeePerMille) \div 1000

\* !senderBalance || senderBalance.gBalance < amount
PaymentRejected(u, amount) ==
    \/ u \notin DOMAIN userBalances
    \/ userBalances[u].gBalance < amount

\* a variant that also credits the counterparty
PaymentBalances_credit(u, recipient, amount) ==
    LET debited == MapSet(userBalances, u,
                      [userBalances[u] EXCEPT !.gBalance = @ - (amount + Fee(amount))])
    IN  IF recipient \in DOMAIN debited
        THEN MapSet(debited, recipient,
                    [debited[recipient] EXCEPT !.gBalance = @ + amount])
        ELSE debited

\* a variant that takes the fee from the counterparty
PaymentBalances_feeFromRecipient(u, recipient, amount) ==
    LET debited == MapSet(userBalances, u,
                      [userBalances[u] EXCEPT !.gBalance = @ - amount])
    IN  IF recipient \in DOMAIN debited
        THEN MapSet(debited, recipient,
                    [debited[recipient] EXCEPT !.gBalance = @ - Fee(amount)])
        ELSE debited

\* a variant that leaves the fee with the sender
PaymentBalances_noFee(u, recipient, amount) ==
    MapSet(userBalances, u, [userBalances[u] EXCEPT !.gBalance = @ - amount])

\* gBalance: senderBalance.gBalance - totalDeduction
PaymentBalances(u, recipient, amount) ==
    MapSet(userBalances, u,
           [userBalances[u] EXCEPT !.gBalance = @ - (amount + Fee(amount))])

SendPayment(u, recipient, amount) ==
    IF PaymentRejected(u, amount)
    THEN /\ resp' = Failure("send-payment", u, amount, recipient, "", 400,
                            "Insufficient balance")
         /\ UNCHANGED ledgerVars
    ELSE LET paymentTx == [type |-> "payment", recipient |-> recipient,
                           amount |-> amount, fee |-> Fee(amount),
                           timestamp |-> now, status |-> "completed"]
         IN  /\ TotalTx < MaxTx
             /\ userBalances' = PaymentBalances(u, recipient, amount)
             /\ transactions' = PushTx(u, paymentTx)
             /\ resp' = Success("send-payment", u, amount, recipient, "")

\* a variant without the funds comparison
DepositRejected_noFunds(u, depositAmount) == u \notin DOMAIN userBalances

\* !currentBalance || currentBalance.gBalance < depositAmount
DepositRejected(u, depositAmount) ==
    \/ u \notin DOMAIN userBalances
    \/ userBalances[u].gBalance < depositAmount

\* a variant that debits without crediting the savings
DepositBalance_debitOnly(currentBalance, depositAmount) ==
    [currentBalance EXCEPT !.gBalance = @ - depositAmount]

\* a variant that credits the savings without debiting
DepositBalance_creditOnly(currentBalance, depositAmount) ==
    [currentBalance EXCEPT !.savings = @ + depositAmount]

DepositBalance(currentBalance, depositAmount) ==
    [currentBalance EXCEPT !.gBalance = @ - depositAmount,
                           !.savings  = @ + depositAmount]

DepositSavings(u, depositAmount) ==
    IF DepositRejected(u, depositAmount)
    THEN /\ resp' = Failure("deposit-savings", u, depositAmount, "", "", 400,
                            "Insufficient balance for deposit")
         /\ UNCHANGED ledgerVars
    ELSE LET savingsTx == [type |-> "savings_deposit", amount |-> depositAmount,
                           interestRate |-> interestRate,
                           timestamp |-> now, status |-> "completed"]
         IN  /\ TotalTx < MaxTx
             /\ userBalances' =
                    MapSet(userBalances, u,
                           DepositBalance(userBalances[u], depositAmount))
             /\ transactions' = PushTx(u, savingsTx)
             /\ resp' = Success("deposit-savings", u, depositAmount, "", "")

(***************************************************************************)
(* Finance API, GET.                                                       *)
(***************************************************************************)
NoUser == ""     \* searchParams.get('userId') is null

\* a variant that puts the oldest entry first
Compare_reversed(a, b) == a.timestamp - b.timestamp

\* The comparator of get-transactions:
\* new Date(b.timestamp).getTime() - new Date(a.timestamp).getTime()
Compare(a, b) == b.timestamp - a.timestamp

\* Places x, which stood before every entry of the sorted sequence s, in s:
\* behind the entries the comparator puts first, before those it ties with.
RECURSIVE Insert(_, _)
Insert(x, s) ==
    IF s = <<>> THEN <<x>>
    ELSE IF Compare(x, Head(s)) > 0 THEN <<Head(s)>> \o Insert(x, Tail(s))
    ELSE <<x>> \o s

\* Array.prototype.sort with the comparator above: a stable sort
RECURSIVE Sorted(_)
Sorted(log) ==
    IF log = <<>> THEN <<>> ELSE Insert(Head(log), Sorted(Tail(log)))

\* userTransactions.sort(...) sorts the stored array itself and returns it
GetTransactions(u) ==
    IF u = NoUser
    THEN /\ resp' = Failure("get-transactions", u, 0, "", "", 400,
                            "User ID required")
         /\ UNCHANGED <<ledgerVars, listed>>
    ELSE LET userTransactions == IF u \in DOMAIN transactions
                                 THEN transactions[u] ELSE <<>>
         IN  /\ transactions' = IF u \in DOMAIN transactions
                                THEN MapSet(transactions, u,
                                            Sorted(userTransactions))
                                ELSE transactions
             /\ listed' = Sorted(userTransactions)
             /\ resp' = Success("get-transactions", u,
                                Len(userTransactions), "", "")
             /\ UNCHANGED userBalances

(***************************************************************************)
(* Governance API, POST.                                                   *)
(***************************************************************************)
Choices   == {"for", "against", "abstain"}
VoteTypes == Choices \cup {"other"}     \* voteType is whatever the request carries

\* a variant that draws from the range above
Quorum_wide(r) == r + QuorumMin + QuorumSpan

\* Math.floor(Math.random() * 20) + 10, r being Math.floor(Math.random() * 20)
Quorum(r) == r + QuorumMin
RandomDraws == {0, QuorumSpan - 1}

\* createdAt is new Date() and votingDeadline is Date.now() + 7 days, read
\* one after the other: skew is how far the second reading is from the first
CreateProposalAt(u, p, r, skew) ==
    LET newProposal == [author |-> u, createdAt |-> now, status |-> "active",
                        votingDeadline |-> now + skew + VotingWindow,
                        votes |-> [for |-> 0, against |-> 0, abstain |-> 0],
                        quorum |-> Quorum(r), executedAt |-> NoTime]
    IN  /\ p \notin DOMAIN proposals         \* the generated id is new
        /\ proposals' = MapSet(proposals, p, newProposal)
        /\ UNCHANGED <<votes, crowd, voteWins, tallied>>
        /\ resp' = Success("create-proposal", u, 0, p, "")

\* the two readings of the clock fall in the same tick
CreateProposal(u, p, r) == CreateProposalAt(u, p, r, 0)

VoteKey(p, u) == <<p, u>>                    \* `${propId}_${userId}`

\* a variant that never finds the earlier vote
AlreadyVoted_never(p, u) == FALSE

\* votes.has(`${propId}_${userId}`)
AlreadyVoted(p, u) == VoteKey(p, u) \in DOMAIN votes

\* a variant that closes the vote one window late
VotingEnded_late(p) == now > proposals[p].votingDeadline + VotingWindow

\* new Date() > new Date(existingProposal.votingDeadline)
VotingEnded(p) == now > proposals[p].votingDeadline

\* existingProposal.votes[voteType]++ ; a voteType other than the three
\* counters creates another property and leaves the counters alone
CountVote(proposal, voteType) ==
    IF voteType \in Choices
    THEN [proposal EXCEPT !.votes[voteType] = @ + 1]
    ELSE proposal

Vote(u, p, voteType) ==
    IF p \notin DOMAIN proposals
    THEN /\ resp' = Failure("vote", u, 0, p, voteType, 404, "Proposal not found")
         /\ UNCHANGED govVars
    ELSE IF AlreadyVoted(p, u)
    THEN /\ resp' = Failure("vote", u, 0, p, voteType, 400,
                            "You have already voted on this proposal")
         /\ UNCHANGED govVars
    ELSE IF VotingEnded(p)
    THEN /\ resp' = Failure("vote", u, 0, p, voteType, 400,
                            "Voting period has ended")
         /\ UNCHANGED govVars
    ELSE LET vote == [proposalId |-> p, userId |-> u, voteType |-> voteType,
                      timestamp |-> now]
         IN  /\ votes' = MapSet(votes, VoteKey(p, u), vote)
             /\ proposals' = MapSet(proposals, p, CountVote(proposals[p], voteType))
             /\ voteWins' = [voteWins EXCEPT ![p][u] = @ + 1]
             /\ tallied' = [tallied EXCEPT ![p][u] =
                                @ + (IF voteType \in Choices THEN 1 ELSE 0)]
             /\ UNCHANGED crowd
             /\ resp' = Success("vote", u, 0, p, voteType)

\* The same handler for a request whose userId is outside Users and has no
\* vote on p yet; its record is kept as a count.
CrowdVote(p, voteType) ==
    IF p \notin DOMAIN proposals
    THEN /\ resp' = Failure("vote", "crowd", 0, p, voteType, 404,
                            "Proposal not found")
         /\ UNCHANGED govVars
    ELSE IF VotingEnded(p)
    THEN /\ resp' = Failure("vote", "crowd", 0, p, voteType, 400,
                            "Voting period has ended")
         /\ UNCHANGED govVars
    ELSE /\ crowd[p].for + crowd[p].against + crowd[p].abstain < MaxCrowd
         /\ crowd' = [crowd EXCEPT ![p][voteType] = @ + 1]
         /\ proposals' = MapSet(proposals, p, CountVote(proposals[p], voteType))
         /\ UNCHANGED <<votes, voteWins, tallied>>
         /\ resp' = Success("vote", "crowd", 0, p, voteType)

\* totalVotes >= quorum && votes.for > votes.against
Passed(execProposal) ==
    LET totalVotes == execProposal.votes.for + execProposal.votes.against
                      + execProposal.votes.abstain
    IN  totalVotes >= execProposal.quorum
        /\ execProposal.votes.for > execProposal.votes.against

\* a variant that marks the proposal executed also when it did not pass
ExecuteProposal_eager(u, p) ==
    IF p \notin DOMAIN proposals
    THEN /\ resp' = Failure("execute-proposal", u, 0, p, "", 404,
                            "Proposal not found")
         /\ UNCHANGED govVars
    ELSE /\ proposals' = MapSet(proposals, p,
               [proposals[p] EXCEPT !.status = "executed", !.executedAt = now])
         /\ UNCHANGED <<votes, crowd, voteWins, tallied>>
         /\ resp' = IF Passed(proposals[p])
                    THEN Success("execute-proposal", u, 0, p, "")
                    ELSE Failure("execute-proposal", u, 0, p, "", 400,
                                 "Proposal did not pass voting requirements")

ExecuteProposal(u, p) ==
    IF p \notin DOMAIN proposals
    THEN /\ resp' = Failure("execute-proposal", u, 0, p, "", 404,
                            "Proposal not found")
         /\ UNCHANGED govVars
    ELSE IF ~Passed(proposals[p])
    THEN /\ resp' = Failure("execute-proposal", u, 0, p, "", 400,
                            "Proposal did not pass voting requirements")
         /\ UNCHANGED govVars
    ELSE /\ proposals' = MapSet(proposals, p,
               [proposals[p] EXCEPT !.status = "executed", !.executedAt = now])
         /\ UNCHANGED <<votes, crowd, voteWins, tallied>>
         /\ resp' = Success("execute-proposal", u, 0, p, "")

(***************************************************************************)
(* Governance API, GET.                                                    *)
(***************************************************************************)
\* get-proposal, for a stored proposal:
\* canVote: !userVote && new Date() < new Date(proposal.votingDeadline)
CanVote(p, u) ==
    /\ VoteKey(p, u) \notin DOMAIN votes
    /\ now < proposals[p].votingDeadline

\* `const userVotes` belongs to the block of the whole switch and is
\* initialised only by the statements of case 'get-user-votes'; a request
\* enters the switch at its own case, so those statements have not run
UserVotesInitialised(action) == action = "get-user-votes"

\* get-governance-stats reads userVotes.size: reading the uninitialised
\* binding throws, and the catch of GET answers 500
GetGovernanceStats ==
    LET allProposals      == {proposals[p] : p \in DOMAIN proposals}
        activeProposals   == {q \in allProposals : q.status = "active"}
        executedProposals == {q \in allProposals : q.status = "executed"}
    IN  /\ resp' = IF UserVotesInitialised("get-governance-stats")
                   THEN Success("get-governance-stats", "",
                                Cardinality(allProposals), "", "")
                   ELSE Failure("get-governance-stats", "", 0, "", "", 500,
                                "Internal server error")
        /\ UNCHANGED govVars

(***************************************************************************)
(* Community goals.                                                        *)
(***************************************************************************)
\* communityGoals.set('solar-project', ...), ('food-coop', ...),
\* ('education-fund', ...) at module load
InitialGoals ==
    [g \in {"solar-project", "food-coop", "education-fund"} |->
        CASE g = "solar-project" ->
                 [targetAmount |-> 50000 * Cent, currentAmount |-> 37500 * Cent,
                  contributors |-> 45]
          [] g = "food-coop" ->
                 [targetAmount |-> 25000 * Cent, currentAmount |-> 15000 * Cent,
                  contributors |-> 32]
          [] g = "education-fund" ->
                 [targetAmount |-> 15000 * Cent, currentAmount |-> 13500 * Cent,
                  contributors |-> 28]]

GoalIds == DOMAIN InitialGoals \cup {"no-such-goal"}   \* data.goalId

TotalContributions ==
    LET RECURSIVE Sum(_)
        Sum(S) == IF S = {} THEN 0
                  ELSE LET x == CHOOSE y \in S : TRUE
                       IN  contributed[x[1]][x[2]].n + Sum(S \ {x})
    IN  Sum((DOMAIN InitialGoals) \X Users)

\* a variant that leaves the number of contributors alone
GoalAfter_sameCount(goal, amount) ==
    [goal EXCEPT !.currentAmount = @ + amount]

\* goal.currentAmount += amount; goal.contributors += 1
GoalAfter(goal, amount) ==
    [goal EXCEPT !.currentAmount = @ + amount, !.contributors = @ + 1]

ContributeToGoal(u, goalId, amount) ==
    IF goalId \notin DOMAIN communityGoals
    THEN /\ resp' = Failure("contribute-to-goal", u, amount, goalId, "", 404,
                            "Community goal not found")
         /\ UNCHANGED goalVars
    ELSE /\ TotalContributions < MaxContrib
         /\ communityGoals' = MapSet(communityGoals, goalId,
                                     GoalAfter(communityGoals[goalId], amount))
         /\ contributed' = [contributed EXCEPT ![goalId][u] =
                                [n |-> @.n + 1, sum |-> @.sum + amount]]
         /\ resp' = Success("contribute-to-goal", u, amount, goalId, "")

(***************************************************************************)
(* IntegrationManager.getDashboardData (src/src/lib/integrations/index.ts) *)
(***************************************************************************)
\* the statistics calls inside Promise.all
FanOut == {"humanProtocol", "goodDollar", "nillion", "torProject", "edgeCity",
           "logos", "bento"}
\* the statistics calls awaited one after the other in the returned object
Collaborators == FanOut \cup {"internetArchive", "numbersProtocol"}

\* a variant whose statistics call lets the failure through
StatsOutcome_rethrow(ok) == IF ok THEN "live" ELSE "rejected"

\* try { response = await this.mock...Call(...); return {...} }
\* catch (error) { return { ...fixed figures... } }
StatsOutcome(ok) == IF ok THEN "live" ELSE "placeholder"

\* getDashboardData() is called: the seven calls of Promise.all are issued
DashStart ==
    /\ dash.pc \in {"idle", "returned", "rejected"}
    /\ dash' = [pc |-> "all",
                stats |-> [c \in Collaborators |->
                              IF c \in FanOut THEN "pending" ELSE "none"],
                snapshot |-> <<>>]

\* the call of collaborator c comes back, with figures or with an exception;
\* a rejected promise under await or Promise.all rejects getDashboardData
StatsCall(c, ok) ==
    /\ dash.stats[c] = "pending"
    /\ dash' = [dash EXCEPT !.stats[c] = StatsOutcome(ok),
                            !.pc = IF StatsOutcome(ok) = "rejected"
                                   THEN "rejected" ELSE @]

\* Promise.all resolves; internetArchive.getNetworkStats() is awaited
DashAwaitArchive ==
    /\ dash.pc = "all"
    /\ \A c \in FanOut : dash.stats[c] \in {"live", "placeholder"}
    /\ dash' = [dash EXCEPT !.pc = "archive",
                            !.stats["internetArchive"] = "pending"]

\* numbersProtocol.getNetworkStats() is awaited
DashAwaitNumbers ==
    /\ dash.pc = "archive"
    /\ dash.stats["internetArchive"] \in {"live", "placeholder"}
    /\ dash' = [dash EXCEPT !.pc = "numbers",
                            !.stats["numbersProtocol"] = "pending"]

\* return { identity, finance, privacy, infrastructure, reputation }
DashReturn ==
    /\ dash.pc = "numbers"
    /\ dash.stats["numbersProtocol"] \in {"live", "placeholder"}
    /\ dash' = [dash EXCEPT !.pc = "returned", !.snapshot = dash.stats]

(***************************************************************************)
(* The clock.                                                              *)
(***************************************************************************)
Tick(d, max) ==
    /\ now + d <= max
    /\ now' = now + d
    /\ resp' = NoResp
    /\ UNCHANGED <<ledgerVars, govVars, goalVars, listed, dash, inflight>>

(***************************************************************************)
(* The ledger, one request at a time.                                      *)
(***************************************************************************)
Init ==
    /\ now = 0
    /\ userBalances = <<>>
    /\ transactions = <<>>
    /\ proposals = <<>>
    /\ votes = <<>>
    /\ crowd = [p \in Proposals |-> [for |-> 0, against |-> 0, abstain |-> 0]]
    /\ communityGoals = InitialGoals
    /\ listed = <<>>
    /\ dash = [pc |-> "idle", stats |-> [c \in Collaborators |-> "none"],
               snapshot |-> <<>>]
    /\ contributed = [g \in DOMAIN InitialGoals |->
                          [u \in Users |-> [n |-> 0, sum |-> 0]]]
    /\ voteWins = [p \in Proposals |-> [u \in Users |-> 0]]
    /\ tallied = [p \in Proposals |-> [u \in Users |-> 0]]
    /\ inflight = [s \in Slots |-> NoReq]
    /\ resp = NoResp

LedgerStep(A) == A /\ UNCHANGED <<now, govVars, goalVars, listed, dash, inflight>>

Next ==
    \/ \E u \in Users : LedgerStep(ConnectHumanWallet(u))
    \/ \E u \in Users : LedgerStep(ClaimUbi(u))
    \/ \E u \in Users, r \in Users, a \in Amounts : LedgerStep(SendPayment(u, r, a))
    \/ \E u \in Users, a \in Amounts : LedgerStep(DepositSavings(u, a))
    \/ Tick(1, MaxLedgerTime)

Spec == Init /\ [][Next]_vars

(***************************************************************************)
(* Governance, one request at a time.                                      *)
(***************************************************************************)
CrowdChoices == {"for", "abstain"}

GovStep(A) == A /\ UNCHANGED <<now, ledgerVars, goalVars, listed, dash, inflight>>

GovNext ==
    \/ \E u \in Users, p \in Proposals, r \in RandomDraws :
           GovStep(CreateProposal(u, p, r))
    \/ \E u \in Users, p \in Proposals, t \in VoteTypes : GovStep(Vote(u, p, t))
    \/ \E p \in Proposals, t \in CrowdChoices : GovStep(CrowdVote(p, t))
    \/ \E u \in Users, p \in Proposals : GovStep(ExecuteProposal(u, p))
    \/ Tick(VotingWindow, MaxGovTime)

GovSpec == Init /\ [][GovNext]_vars

(***************************************************************************)
(* Governance with concurrent requests.  POST suspends once, at            *)
(* `await request.json()`; the switch that follows runs to its return      *)
(* without another await, so it is one step of the event loop.             *)
(***************************************************************************)
RaceRequests ==
    {Request("create-proposal", u, 0, "", "") : u \in Users}
    \cup {Request("vote", u, 0, p, t) : u \in Users, p \in Proposals, t \in VoteTypes}

Receive(s, req) ==
    /\ inflight[s] = NoReq
    /\ inflight' = [inflight EXCEPT ![s] = req]
    /\ resp' = NoResp
    /\ UNCHANGED <<now, ledgerVars, govVars, goalVars, listed, dash>>

Serve(s) ==
    LET req == inflight[s]
    IN  /\ req # NoReq
        /\ inflight' = [inflight EXCEPT ![s] = NoReq]
        /\ UNCHANGED <<now, ledgerVars, goalVars, listed, dash>>
        /\ CASE req.action = "create-proposal" ->
                    \E p \in Proposals, r \in RandomDraws :
                        CreateProposal(req.userId, p, r)
             [] req.action = "vote" ->
                    Vote(req.userId, req.target, req.voteType)

RaceNext ==
    \/ \E s \in Slots, req \in RaceRequests : Receive(s, req)
    \/ \E s \in Slots : Serve(s)
    \/ Tick(VotingWindow, MaxGovTime)

RaceSpec == Init /\ [][RaceNext]_vars

(***************************************************************************)
(* The ledger with concurrent requests.  The finance POST suspends once,   *)
(* at `await request.json()`, like the governance POST.                    *)
(***************************************************************************)
LedgerRaceRequests ==
    {Request("claim-ubi", u, 0, "", "") : u \in Users}
    \cup {Request("deposit-savings", u, a, "", "") : u \in Users, a \in Amounts}
    \cup {Request("send-payment", u, a, r, "") :
              u \in Users, r \in Users, a \in Amounts}

ServeLedger(s) ==
    LET req == inflight[s]
    IN  /\ req # NoReq
        /\ inflight' = [inflight EXCEPT ![s] = NoReq]
        /\ UNCHANGED <<now, govVars, goalVars, listed, dash>>
        /\ CASE req.action = "claim-ubi" -> ClaimUbi(req.userId)
             [] req.action = "deposit-savings" ->
                    DepositSavings(req.userId, req.amount)
             [] req.action = "send-payment" ->
                    SendPayment(req.userId, req.target, req.amount)

LedgerRaceNext ==
    \/ \E s \in Slots, req \in LedgerRaceRequests : Receive(s, req)
    \/ \E s \in Slots : ServeLedger(s)
    \/ Tick(1, MaxLedgerTime)

LedgerRaceSpec == Init /\ [][LedgerRaceNext]_vars

(***************************************************************************)
(* The same with wallet connections among the concurrent requests, all     *)
(* of them arriving within one tick of the clock.                          *)
(***************************************************************************)
WalletRaceRequests ==
    LedgerRaceRequests
    \cup {Request("connect-human-wallet", u, 0, "", "") : u \in Users}

ServeWallet(s) ==
    IF inflight[s] # NoReq /\ inflight[s].action = "connect-human-wallet"
    THEN /\ inflight' = [inflight EXCEPT ![s] = NoReq]
         /\ UNCHANGED <<now, govVars, goalVars, listed, dash>>
         /\ ConnectHumanWallet(inflight[s].userId)
    ELSE ServeLedger(s)

WalletRaceNext ==
    \/ \E s \in Slots, req \in WalletRaceRequests : Receive(s, req)
    \/ \E s \in Slots : ServeWallet(s)

WalletRaceSpec == Init /\ [][WalletRaceNext]_vars

(***************************************************************************)
(* The community goals, one request at a time.                             *)
(***************************************************************************)
\* a variant in which a goals request also empties the ledger
GoalStep_ledger(A) ==
    /\ A
    /\ userBalances' = <<>> /\ transactions' = <<>>
    /\ UNCHANGED <<now, govVars, listed, dash, inflight>>

\* part_007 holds proposals, votes and communityGoals and imports nothing
\* of part_005
GoalStep(A) == A /\ UNCHANGED <<now, ledgerVars, govVars, listed, dash, inflight>>

GoalNext ==
    \E u \in Users, g \in GoalIds, a \in Amounts :
        GoalStep(ContributeToGoal(u, g, a))

GoalSpec == Init /\ [][GoalNext]_vars

(***************************************************************************)
(* The ledger with its transaction listing, one request at a time.         *)
(***************************************************************************)
ListStep(A) == A /\ UNCHANGED <<now, govVars, goalVars, dash, inflight>>

ListNext ==
    \/ \E u \in Users : LedgerStep(ClaimUbi(u))
    \/ \E u \in Users, a \in Amounts : LedgerStep(DepositSavings(u, a))
    \/ \E u \in Users \cup {NoUser} : ListStep(GetTransactions(u))
    \/ Tick(1, MaxLedgerTime)

ListSpec == Init /\ [][ListNext]_vars

(***************************************************************************)
(* Governance with a clock that runs while a handler does: a tick may      *)
(* begin between two readings of the clock in one handler.                 *)
(***************************************************************************)
ClockCreate(u, p, r, skew) ==
    /\ now + skew <= MaxGovTime
    /\ now' = now + skew
    /\ CreateProposalAt(u, p, r, skew)
    /\ UNCHANGED <<ledgerVars, goalVars, listed, dash, inflight>>

ClockNext ==
    \/ \E u \in Users, p \in Proposals, r \in RandomDraws, skew \in 0 .. MaxSkew :
           ClockCreate(u, p, r, skew)
    \/ \E u \in Users, p \in Proposals, t \in VoteTypes : GovStep(Vote(u, p, t))
    \/ Tick(VotingWindow, MaxGovTime)

ClockSpec == Init /\ [][ClockNext]_vars

(***************************************************************************)
(* The finance API and the governance API in one process, one request at   *)
(* a time.                                                                 *)
(***************************************************************************)
RECURSIVE Stored(_, _)
Stored(logs, contributions) ==
    IF DOMAIN logs # {}
    THEN LET u == CHOOSE x \in DOMAIN logs : TRUE
         IN  Len(logs[u]) + Stored([v \in DOMAIN logs \ {u} |-> logs[v]],
                                   contributions)
    ELSE IF DOMAIN contributions # {}
    THEN LET g == CHOOSE x \in DOMAIN contributions : TRUE
             U == DOMAIN contributions[g]
             u == CHOOSE x \in U : TRUE
             rest == [v \in U \ {u} |-> contributions[g][v]]
         IN  contributions[g][u].n
             + Stored(logs, IF U = {u}
                            THEN [h \in DOMAIN contributions \ {g} |->
                                      contributions[h]]
                            ELSE [contributions EXCEPT ![g] = rest])
    ELSE 0

\* transactions, contributions and vote records held after a step
Work == Stored(transactions', contributed') + Cardinality(DOMAIN votes')

ApiStep(A) == A /\ Work <= MaxWork

ApiUsers == {"u1"}     \* the user whose requests are followed

ApiNext ==
    \/ \E u \in ApiUsers : ApiStep(LedgerStep(ConnectHumanWallet(u)))
    \/ \E u \in ApiUsers : ApiStep(LedgerStep(ClaimUbi(u)))
    \/ \E u \in ApiUsers, r \in Users, a \in Amounts :
           ApiStep(LedgerStep(SendPayment(u, r, a)))
    \/ \E u \in ApiUsers, a \in Amounts : ApiStep(LedgerStep(DepositSavings(u, a)))
    \/ \E u \in ApiUsers, p \in Proposals, r \in RandomDraws :
           ApiStep(GovStep(CreateProposal(u, p, r)))
    \/ \E u \in ApiUsers, p \in Proposals, t \in VoteTypes :
           ApiStep(GovStep(Vote(u, p, t)))
    \/ \E u \in ApiUsers, p \in Proposals : ApiStep(GovStep(ExecuteProposal(u, p)))
    \/ \E u \in ApiUsers, g \in GoalIds, a \in Amounts :
           ApiStep(GoalStep(ContributeToGoal(u, g, a)))
    \/ Tick(VotingWindow, MaxGovTime)

ApiSpec == Init /\ [][ApiNext]_vars

(***************************************************************************)
(* The dashboard.  Every mocked call settles after its timeout, so the     *)
(* steps of a running getDashboardData are weakly fair.                    *)
(***************************************************************************)
DashStep(A) ==
    A /\ resp' = NoResp
      /\ UNCHANGED <<now, ledgerVars, govVars, goalVars, listed, inflight>>

DashNext ==
    \/ DashStep(DashStart)
    \/ \E c \in Collaborators, ok \in BOOLEAN : DashStep(StatsCall(c, ok))
    \/ DashStep(DashAwaitArchive)
    \/ DashStep(DashAwaitNumbers)
    \/ DashStep(DashReturn)

DashSpec == Init /\ [][DashNext]_vars /\ WF_vars(DashNext)

(***************************************************************************)
(* Governance with its statistics read, one request at a time.             *)
(***************************************************************************)
StatsNext ==
    \/ \E u \in Users, p \in Proposals, r \in RandomDraws :
           GovStep(CreateProposal(u, p, r))
    \/ \E u \in Users, p \in Proposals, t \in VoteTypes : GovStep(Vote(u, p, t))
    \/ GovStep(GetGovernanceStats)
    \/ Tick(VotingWindow, MaxGovTime)

StatsSpec == Init /\ [][StatsNext]_vars

(***************************************************************************)
(* The names the specification gives to the failures.                      *)
(***************************************************************************)
InsufficientFunds == {"Insufficient balance", "Insufficient balance for deposit"}
AlreadyVotedError == "You have already voted on this proposal"
VotingClosed      == "Voting period has ended"
QuorumNotMet      == "Proposal did not pass voting requirements"
ProposalNotFound  == "Proposal not found"
GoalNotFound      == "Community goal not found"
TypedFailures     == InsufficientFunds
                     \cup {AlreadyVotedError, VotingClosed, QuorumNotMet,
                           ProposalNotFound, GoalNotFound}

\* the spendable balance of a user, zero for a user without an account
Spendable(u) == IF u \in DOMAIN userBalances THEN userBalances[u].gBalance ELSE 0

LogOf(u) == IF u \in DOMAIN transactions THEN transactions[u] ELSE <<>>

TallyTotal(p) == proposals[p].votes.for + proposals[p].votes.against
                 + proposals[p].votes.abstain

RECURSIVE SumTallied(_, _)
SumTallied(p, S) ==
    IF S = {} THEN 0
    ELSE LET u == CHOOSE x \in S : TRUE
         IN  tallied[p][u] + SumTallied(p, S \ {u})

(***************************************************************************)
(* C1.  Every account has spendableBalance >= 0 and savingsPrincipal >= 0  *)
(* after any sequence of claim, payment, deposit and connect-wallet        *)
(* operations with any requested amounts.                                  *)
(***************************************************************************)
C1_BalancesNonNegative ==
    \A u \in DOMAIN userBalances :
        userBalances[u].gBalance >= 0 /\ userBalances[u].savings >= 0

(***************************************************************************)
(* C2.  A claimDailyIncome of a user whose previous claim is less than 24h *)
(* old fails (CooldownActive) and leaves the balance as the first claim    *)
(* left it.                                                                *)
(***************************************************************************)
C2_CooldownEnforced ==
    [][\A u \in Users :
          (/\ resp'.action = "claim-ubi" /\ resp'.userId = u
           /\ u \in DOMAIN userBalances
           /\ userBalances[u].lastClaim # NoTime
           /\ now - userBalances[u].lastClaim < Day)
          => (/\ ~resp'.ok
              /\ userBalances'[u].gBalance = userBalances[u].gBalance)]_vars

(***************************************************************************)
(* C3.  sendPayment fails with InsufficientFunds whenever amount + fee     *)
(* exceeds the spendable balance, fee being 0.5% of the amount, and the    *)
(* failure leaves the balances and the transaction log unchanged.          *)
(***************************************************************************)
C3_PaymentCoversFee ==
    [][\A u \in Users :
          (/\ resp'.action = "send-payment" /\ resp'.userId = u
           /\ resp'.amount + (resp'.amount * 5) \div 1000 > Spendable(u))
          => (/\ ~resp'.ok
              /\ resp'.error \in InsufficientFunds
              /\ UNCHANGED ledgerVars)]_vars

(***************************************************************************)
(* C4.  One (proposalId, userId) pair never has two successful castVote    *)
(* calls, however concurrent vote requests interleave: once a vote request *)
(* of the pair was accepted or refused as a duplicate exactly one has      *)
(* succeeded, and the tally was incremented once for that user.            *)
(***************************************************************************)
C4_NoDoubleVote ==
    \A p \in Proposals :
        /\ \A u \in Users :
              /\ voteWins[p][u] <= 1
              /\ tallied[p][u] <= 1
              /\ voteWins[p][u] = 1 <=> VoteKey(p, u) \in DOMAIN votes
              /\ (/\ VoteKey(p, u) \in DOMAIN votes
                  /\ votes[VoteKey(p, u)].voteType \in Choices)
                  => tallied[p][u] = 1
              /\ (/\ resp.action = "vote" /\ resp.userId = u /\ resp.target = p
                  /\ (resp.ok \/ resp.error = AlreadyVotedError))
                  => voteWins[p][u] = 1
        /\ p \in DOMAIN proposals =>
              TallyTotal(p) = SumTallied(p, Users)
                              + crowd[p].for + crowd[p].against + crowd[p].abstain

\* a vote was accepted while a second request of the same pair was suspended
C4_Witness ==
    /\ resp.action = "vote" /\ resp.ok
    /\ \E s \in Slots :
          /\ inflight[s].action = "vote"
          /\ inflight[s].userId = resp.userId
          /\ inflight[s].target = resp.target

(***************************************************************************)
(* C5.  Once a proposal is executed its voteTally never changes again and  *)
(* every later castVote on it is refused, with VotingClosed when the user  *)
(* has no vote on it yet, even before the voting deadline.                 *)
(***************************************************************************)
C5_ExecutedIsFrozen ==
    [][\A p \in DOMAIN proposals :
          proposals[p].status = "executed"
          => (/\ proposals'[p].votes = proposals[p].votes
              /\ (resp'.action = "vote" /\ resp'.target = p)
                 => (/\ ~resp'.ok
                     /\ VoteKey(p, resp'.userId) \notin DOMAIN votes
                        => resp'.error = VotingClosed))]_vars

(***************************************************************************)
(* C6.  executeProposal succeeds only if for + against + abstain >= quorum *)
(* and for > against; otherwise it fails with QuorumNotMet and leaves the  *)
(* proposal's status active and without an executedAt stamp.               *)
(***************************************************************************)
C6_ExecuteOnlyWhenPassed ==
    [][\A p \in DOMAIN proposals :
          (resp'.action = "execute-proposal" /\ resp'.target = p)
          => IF /\ TallyTotal(p) >= proposals[p].quorum
                /\ proposals[p].votes.for > proposals[p].votes.against
             THEN TRUE
             ELSE /\ ~resp'.ok
                  /\ resp'.error = QuorumNotMet
                  /\ proposals'[p].status = "active"
                  /\ proposals'[p].executedAt = NoTime]_vars

(***************************************************************************)
(* C7.  castVote on an existing proposal by a user without a vote on it    *)
(* fails with VotingClosed whenever now > votingDeadline, and the failure  *)
(* changes neither the vote store nor the proposal.                        *)
(***************************************************************************)
C7_LateVoteRefused ==
    [][\A p \in DOMAIN proposals :
          (/\ resp'.action = "vote" /\ resp'.target = p
           /\ VoteKey(p, resp'.userId) \notin DOMAIN votes
           /\ now > proposals[p].votingDeadline)
          => (/\ ~resp'.ok
              /\ resp'.error = VotingClosed
              /\ UNCHANGED <<votes, crowd, proposals>>)]_vars

C7_Witness ==
    /\ resp.action = "vote" /\ ~resp.ok /\ resp.error = VotingClosed
    /\ resp.userId \in Users
    /\ resp.target \in DOMAIN proposals
    /\ VoteKey(resp.target, resp.userId) \notin DOMAIN votes
    /\ now > proposals[resp.target].votingDeadline
    /\ proposals[resp.target].status = "active"

(***************************************************************************)
(* C8.  A successful depositToSavings(user, amount) lowers the spendable   *)
(* balance by exactly amount and raises the savings principal by exactly   *)
(* amount, so their sum is unchanged, and appends exactly one              *)
(* savings-deposit transaction carrying interest rate 5.                   *)
(***************************************************************************)
C8_DepositMovesFunds ==
    [][\A u \in Users :
          (resp'.action = "deposit-savings" /\ resp'.userId = u /\ resp'.ok)
          => (/\ u \in DOMAIN userBalances
              /\ userBalances'[u].gBalance = userBalances[u].gBalance - resp'.amount
              /\ userBalances'[u].savings = userBalances[u].savings + resp'.amount
              /\ userBalances'[u].gBalance + userBalances'[u].savings
                     = userBalances[u].gBalance + userBalances[u].savings
              /\ Len(transactions'[u]) = Len(LogOf(u)) + 1
              /\ SubSeq(transactions'[u], 1, Len(LogOf(u))) = LogOf(u)
              /\ LET tx == transactions'[u][Len(transactions'[u])]
                 IN  /\ tx.type = "savings_deposit"
                     /\ tx.amount = resp'.amount
                     /\ tx.interestRate = 5)]_vars

C8_Witness ==
    /\ resp.action = "deposit-savings" /\ resp.ok /\ resp.amount > 0
    /\ userBalances[resp.userId].savings > 0

(***************************************************************************)
(* C9.  depositToSavings(user, amount) fails with InsufficientFunds        *)
(* whenever amount exceeds the spendable balance, a user without an        *)
(* account included, and the failure leaves the balances and the           *)
(* transaction log unchanged.                                              *)
(***************************************************************************)
C9_DepositNeedsFunds ==
    [][\A u \in Users :
          (/\ resp'.action = "deposit-savings" /\ resp'.userId = u
           /\ resp'.amount > Spendable(u))
          => (/\ ~resp'.ok
              /\ resp'.error \in InsufficientFunds
              /\ UNCHANGED ledgerVars)]_vars

C9_Witness ==
    /\ resp.action = "deposit-savings" /\ ~resp.ok
    /\ resp.userId \in DOMAIN userBalances
    /\ resp.amount > userBalances[resp.userId].gBalance
    /\ \E v \in Users : v \notin DOMAIN userBalances

(***************************************************************************)
(* C10.  A successful sendPayment debits exactly amount + fee from the     *)
(* sender's spendable balance and appends exactly one payment transaction  *)
(* recording the amount and the fee; the counterparty is not credited and  *)
(* no account or log other than the sender's changes.                      *)
(***************************************************************************)
C10_PaymentDebitsSenderOnly ==
    [][\A u \in Users :
          (resp'.action = "send-payment" /\ resp'.userId = u /\ resp'.ok)
          => LET amount == resp'.amount
                 fee    == (resp'.amount * 5) \div 1000
             IN  /\ u \in DOMAIN userBalances
                 /\ userBalances'[u] =
                        [userBalances[u] EXCEPT !.gBalance = @ - (amount + fee)]
                 /\ DOMAIN userBalances' = DOMAIN userBalances
                 /\ \A v \in DOMAIN userBalances \ {u} :
                        userBalances'[v] = userBalances[v]
                 /\ Len(transactions'[u]) = Len(LogOf(u)) + 1
                 /\ SubSeq(transactions'[u], 1, Len(LogOf(u))) = LogOf(u)
                 /\ LET tx == transactions'[u][Len(transactions'[u])]
                    IN  /\ tx.type = "payment"
                        /\ tx.amount = amount
                        /\ tx.fee = fee
                        /\ tx.recipient = resp'.target
                 /\ \A v \in Users \ {u} :
                        /\ v \in DOMAIN transactions' <=> v \in DOMAIN transactions
                        /\ v \in DOMAIN transactions =>
                               transactions'[v] = transactions[v]]_vars

C10_Witness ==
    /\ resp.action = "send-payment" /\ resp.ok /\ resp.amount > 0
    /\ resp.target # resp.userId
    /\ resp.target \in DOMAIN userBalances

(***************************************************************************)
(* C11.  A successful claimDailyIncome credits exactly 10 units to the     *)
(* spendable balance, sets lastIncomeClaimAt to now, leaves the savings    *)
(* principal unchanged and appends exactly one income-claim transaction;   *)
(* the claim of a user without an account succeeds.                        *)
(***************************************************************************)
C11_ClaimCreditsTen ==
    [][\A u \in Users :
          (resp'.action = "claim-ubi" /\ resp'.userId = u)
          => (/\ u \notin DOMAIN userBalances => resp'.ok
              /\ resp'.ok =>
                  /\ userBalances'[u].gBalance = Spendable(u) + 10 * Cent
                  /\ userBalances'[u].lastClaim = now
                  /\ userBalances'[u].savings =
                         (IF u \in DOMAIN userBalances
                          THEN userBalances[u].savings ELSE 0)
                  /\ Len(transactions'[u]) = Len(LogOf(u)) + 1
                  /\ SubSeq(transactions'[u], 1, Len(LogOf(u))) = LogOf(u)
                  /\ LET tx == transactions'[u][Len(transactions'[u])]
                     IN  /\ tx.type = "ubi_claim"
                         /\ tx.amount = 10 * Cent
                         /\ tx.timestamp = now)]_vars

\* the account was made by the claim itself, after the clock had advanced
C11_Witness ==
    /\ resp.action = "claim-ubi" /\ resp.ok
    /\ ~userBalances[resp.userId].wallet
    /\ Len(transactions[resp.userId]) = 1
    /\ userBalances[resp.userId].gBalance = 10 * Cent
    /\ userBalances[resp.userId].lastClaim = now
    /\ now > 0

(***************************************************************************)
(* C12.  Of two concurrent claimDailyIncome requests of one user inside    *)
(* one 24h window at most one succeeds: when both were suspended together  *)
(* and are handled one after the other, the second is refused.             *)
(***************************************************************************)
C12_OneClaimPerWindow ==
    [][\A u \in Users :
          (/\ resp.action = "claim-ubi" /\ resp.userId = u /\ resp.ok
           /\ resp'.action = "claim-ubi" /\ resp'.userId = u
           /\ inflight' # inflight
           /\ now - userBalances[u].lastClaim < Day)
          => ~resp'.ok]_vars

\* what a log has credited (ubi_claim), paid out with fees (payment) or
\* moved to the savings (savings_deposit)
RECURSIVE LogTotal(_, _)
LogTotal(log, type) ==
    IF log = <<>> THEN 0
    ELSE (IF Head(log).type # type THEN 0
          ELSE IF type = "payment" THEN Head(log).amount + Head(log).fee
          ELSE Head(log).amount)
         + LogTotal(Tail(log), type)

IsDebit(r) == r.action \in {"deposit-savings", "send-payment"}

(***************************************************************************)
(* C13.  In any interleaving of concurrent requests no state shows an      *)
(* account from which a deposit or a payment has taken funds without the   *)
(* matching savings credit: what was credited is always the spendable      *)
(* balance plus the savings plus what the recorded payments took.  Every   *)
(* debit passes its funds check against the balance it is taken from, so   *)
(* two concurrent debits never pass it against the same balance.           *)
(***************************************************************************)
C13_DebitsAreAtomic ==
    /\ [](\A u \in DOMAIN userBalances :
             /\ userBalances[u].gBalance + userBalances[u].savings
                  + LogTotal(LogOf(u), "payment")
                = LogTotal(LogOf(u), "ubi_claim")
             /\ userBalances[u].savings = LogTotal(LogOf(u), "savings_deposit"))
    /\ [][\A u \in Users :
             (IsDebit(resp') /\ resp'.userId = u /\ resp'.ok)
             => (/\ u \in DOMAIN userBalances
                 /\ userBalances[u].gBalance >= resp'.amount
                 /\ userBalances'[u].gBalance =
                        userBalances[u].gBalance - resp'.amount
                        - (IF resp'.action = "send-payment"
                           THEN (resp'.amount * 5) \div 1000 ELSE 0))]_vars

\* a debit was made while another debit of the same account was suspended
C13_Witness ==
    /\ IsDebit(resp) /\ resp.ok /\ resp.amount > 0
    /\ \E s \in Slots :
          /\ IsDebit(inflight[s])
          /\ inflight[s].userId = resp.userId
          /\ inflight[s].amount > 0

RECURSIVE SumContributed(_, _, _)
SumContributed(g, S, field) ==
    IF S = {} THEN 0
    ELSE LET u == CHOOSE x \in S : TRUE
         IN  contributed[g][u][field] + SumContributed(g, S \ {u}, field)

(***************************************************************************)
(* C14.  After N successful contributeToGoal calls on a goal its           *)
(* currentAmount has grown by the sum of the N amounts and its             *)
(* contributorCount by exactly N, one per contribution, also when one      *)
(* user contributes several times.                                         *)
(***************************************************************************)
C14_GoalCountsContributions ==
    \A g \in DOMAIN InitialGoals :
        /\ communityGoals[g].currentAmount =
               InitialGoals[g].currentAmount + SumContributed(g, Users, "sum")
        /\ communityGoals[g].contributors =
               InitialGoals[g].contributors + SumContributed(g, Users, "n")

C14_Witness ==
    /\ resp.action = "contribute-to-goal" /\ resp.ok
    /\ contributed[resp.target][resp.userId].n >= 2
    /\ \E u \in Users \ {resp.userId} : contributed[resp.target][u].n >= 1

(***************************************************************************)
(* C15.  A goal's currentAmount and contributorCount never decrease: no    *)
(* contributeToGoal call, with any amount the handler accepts, lowers      *)
(* them.                                                                   *)
(***************************************************************************)
C15_GoalMonotone ==
    [][\A g \in DOMAIN communityGoals :
          /\ communityGoals'[g].currentAmount >= communityGoals[g].currentAmount
          /\ communityGoals'[g].contributors >= communityGoals[g].contributors]_vars

\* the entries of a log, with the number of times each occurs
Entries(log) ==
    [e \in {log[i] : i \in DOMAIN log} |->
        Cardinality({i \in DOMAIN log : log[i] = e})]

MostRecentFirst(log) ==
    \A i, j \in DOMAIN log : i < j => log[i].timestamp >= log[j].timestamp

IsPrefix(s, t) == Len(s) <= Len(t) /\ SubSeq(t, 1, Len(s)) = s

(***************************************************************************)
(* C16.  listTransactions(user) returns the user's transactions most       *)
(* recent first, drops none of them, and a second call with no write in    *)
(* between returns the same entries in the same order.                     *)
(***************************************************************************)
C16_ListingIsOrderedAndStable ==
    [][(resp'.action = "get-transactions" /\ resp'.ok) =>
          /\ MostRecentFirst(listed')
          /\ Entries(listed') = Entries(LogOf(resp'.userId))
          /\ resp'.amount = Len(LogOf(resp'.userId))
          /\ (resp.action = "get-transactions" /\ resp.ok
              /\ resp.userId = resp'.userId) => listed' = listed]_vars

C16_Witness ==
    /\ resp.action = "get-transactions" /\ resp.ok
    /\ Len(listed) = 2
    /\ listed[1].timestamp > listed[2].timestamp
    /\ listed[1].type = "savings_deposit"

(***************************************************************************)
(* C17.  The stored transaction log of an account is append-only and       *)
(* insertion-ordered: every operation, listTransactions included, leaves   *)
(* the stored entries and their order as they were and only appends.       *)
(***************************************************************************)
C17_LogIsAppendOnly ==
    [][\A u \in DOMAIN transactions :
          /\ u \in DOMAIN transactions'
          /\ IsPrefix(transactions[u], transactions'[u])]_vars

(***************************************************************************)
(* C18.  The quorum of every proposal is an integer from 10 to 30 chosen   *)
(* once by createProposal; no vote, execution or other later operation     *)
(* changes it.                                                             *)
(***************************************************************************)
C18_QuorumFixedInRange ==
    /\ [](\A p \in DOMAIN proposals :
             proposals[p].quorum \in QuorumMin .. (QuorumMin + QuorumSpan))
    /\ [][\A p \in DOMAIN proposals :
             /\ p \in DOMAIN proposals'
             /\ proposals'[p].quorum = proposals[p].quorum]_vars

C18_Witness ==
    \E p \in DOMAIN proposals :
        /\ proposals[p].quorum = QuorumMin + QuorumSpan - 1
        /\ proposals[p].votes.for > proposals[p].votes.against
        /\ now > proposals[p].votingDeadline
        /\ resp.action = "execute-proposal" /\ resp.target = p /\ ~resp.ok

(***************************************************************************)
(* C20.  The status of a proposal only moves from active to executed, by   *)
(* a successful executeProposal, and executed is terminal: once executed,  *)
(* no operation changes the status or the executedAt stamp again.          *)
(***************************************************************************)
C20_ExecutedIsTerminal ==
    [][\A p \in DOMAIN proposals :
          /\ p \in DOMAIN proposals'
          /\ proposals'[p].status # proposals[p].status =>
                 /\ proposals[p].status = "active"
                 /\ proposals'[p].status = "executed"
                 /\ resp'.action = "execute-proposal" /\ resp'.ok
                 /\ resp'.target = p
          /\ proposals[p].status = "executed" =>
                 /\ proposals'[p].status = "executed"
                 /\ proposals'[p].executedAt = proposals[p].executedAt]_vars

(***************************************************************************)
(* C19.  createProposal always succeeds and yields a proposal with status  *)
(* active, a tally of zero for, against and abstain, and a votingDeadline  *)
(* exactly seven days after its createdAt.                                 *)
(***************************************************************************)
C19_CreatedProposalShape ==
    [][resp'.action = "create-proposal" =>
          /\ resp'.ok
          /\ resp'.target \in DOMAIN proposals'
          /\ LET created == proposals'[resp'.target]
             IN  /\ created.status = "active"
                 /\ created.votes = [for |-> 0, against |-> 0, abstain |-> 0]
                 /\ created.votingDeadline = created.createdAt + 7 * Day]_vars

(***************************************************************************)
(* C21.  Every ledger or governance operation answers with a success or    *)
(* with exactly one typed failure, and an operation that answers with a    *)
(* failure leaves accounts, transactions, proposals, votes and goals as    *)
(* they were.                                                              *)
(***************************************************************************)
C21_FailureChangesNothing ==
    [][resp'.action # "none" =>
          /\ resp'.ok => resp'.error = "" /\ resp'.status = 200
          /\ ~resp'.ok =>
                 /\ resp'.error \in TypedFailures
                 /\ resp'.status \in {400, 404}
                 /\ UNCHANGED <<userBalances, transactions, proposals, votes,
                                crowd, communityGoals>>]_vars

C21_Witness ==
    /\ ~resp.ok /\ resp.error = QuorumNotMet
    /\ resp.target \in DOMAIN proposals
    /\ TallyTotal(resp.target) >= 1
    /\ userBalances # <<>>

LedgerActions == {"connect-human-wallet", "claim-ubi", "send-payment",
                  "deposit-savings"}
GovernanceActions == {"create-proposal", "vote", "execute-proposal",
                      "contribute-to-goal"}

(***************************************************************************)
(* C23.  Ledger state and governance state are disjoint: createProposal,   *)
(* castVote, executeProposal and contributeToGoal change no balance and no *)
(* transaction log, and no ledger operation changes a proposal, a vote or  *)
(* a goal.                                                                 *)
(***************************************************************************)
C23_LedgerAndGovernanceDisjoint ==
    [][/\ resp'.action \in GovernanceActions =>
              UNCHANGED <<userBalances, transactions>>
       /\ resp'.action \in LedgerActions =>
              UNCHANGED <<proposals, votes, crowd, communityGoals>>]_vars

C23_Witness ==
    /\ resp.action = "contribute-to-goal" /\ resp.ok
    /\ resp.userId \in DOMAIN userBalances
    /\ proposals # <<>>

(***************************************************************************)
(* C24.  A successful contributeToGoal(goalId, userId, amount) debits the  *)
(* ledger balance of the contributing user by the amount contributed.      *)
(***************************************************************************)
C24_ContributionDebitsLedger ==
    [][(resp'.action = "contribute-to-goal" /\ resp'.ok) =>
          /\ resp'.userId \in DOMAIN userBalances'
          /\ userBalances'[resp'.userId].gBalance =
                 Spendable(resp'.userId) - resp'.amount]_vars

(***************************************************************************)
(* C22.  getDashboardData completes with a full snapshot even when the     *)
(* statistics call of one external collaborator fails: the failure of one  *)
(* collaborator aborts neither the snapshot nor the sections of the other  *)
(* collaborators.                                                          *)
(***************************************************************************)
C22_SnapshotSurvivesFailures ==
    /\ [](dash.pc # "rejected")
    /\ [](dash.pc = "returned" =>
             /\ DOMAIN dash.snapshot = Collaborators
             /\ \A c \in Collaborators :
                    dash.snapshot[c] \in {"live", "placeholder"})
    /\ (dash.pc = "all") ~> (dash.pc = "returned")

C22_Witness ==
    /\ dash.pc = "returned"
    /\ \E c \in Collaborators :
           /\ dash.snapshot[c] = "placeholder"
           /\ \A d \in Collaborators \ {c} : dash.snapshot[d] = "live"

\* a vote request of user u on the stored proposal p would be accepted now
VoteWouldSucceed(p, u) == ~AlreadyVoted(p, u) /\ ~VotingEnded(p)

(***************************************************************************)
(* C25.  The canVote flag getProposal reports for (proposal, user) is true *)
(* exactly when a castVote by that user on that proposal at the same       *)
(* instant would succeed: same answer on the already-voted check, at the   *)
(* deadline itself (now = votingDeadline) and on executed proposals.       *)
(***************************************************************************)
C25_CanVoteAgreesWithVote ==
    \A p \in DOMAIN proposals : \A u \in Users :
        CanVote(p, u) <=> VoteWouldSucceed(p, u)

(***************************************************************************)
(* C29.  The governance statistics read (get-governance-stats) succeeds in *)
(* every reachable state, writes nothing, and reports totalProposals =     *)
(* activeProposals + executedProposals.                                    *)
(***************************************************************************)
C29_StatsReadSucceeds ==
    [][resp'.action = "get-governance-stats" =>
          /\ resp'.ok
          /\ UNCHANGED <<proposals, votes, crowd, communityGoals>>
          /\ resp'.amount =
                 Cardinality({p \in DOMAIN proposals :
                                 proposals[p].status = "active"})
                 + Cardinality({p \in DOMAIN proposals :
                                   proposals[p].status = "executed"})]_vars

\* the vote records stored for proposal p with the given choices
StoredVotes(p, choices) ==
    Cardinality({k \in DOMAIN votes :
                    votes[k].proposalId = p /\ votes[k].voteType \in choices})

(***************************************************************************)
(* C26.  For every proposal in every reachable state, for + against +      *)
(* abstain equals the number of vote records stored for the proposal and   *)
(* each counter equals the number of stored votes with that choice,        *)
(* whatever voteType the requests carried.                                 *)
(***************************************************************************)
C26_TallyMatchesRecords ==
    \A p \in DOMAIN proposals :
        /\ TallyTotal(p) =
               StoredVotes(p, VoteTypes)
               + crowd[p].for + crowd[p].against + crowd[p].abstain
        /\ \A c \in Choices :
               proposals[p].votes[c] = StoredVotes(p, {c}) + crowd[p][c]

RECURSIVE CountOf(_, _)
CountOf(log, type) ==
    IF log = <<>> THEN 0
    ELSE (IF Head(log).type = type THEN 1 ELSE 0) + CountOf(Tail(log), type)

(***************************************************************************)
(* C27.  In every reachable state the balances of an account follow from   *)
(* its transaction log: spendableBalance = 10 * (number of income-claim    *)
(* entries) - sum of (amount + fee) over the payment entries - sum of the  *)
(* amounts of the savings-deposit entries, and savingsPrincipal = sum of   *)
(* the amounts of the savings-deposit entries.                             *)
(***************************************************************************)
C27_BalancesFollowFromLog ==
    /\ \A u \in DOMAIN transactions : u \in DOMAIN userBalances
    /\ \A u \in DOMAIN userBalances :
          /\ userBalances[u].gBalance =
                 10 * Cent * CountOf(LogOf(u), "ubi_claim")
                 - LogTotal(LogOf(u), "payment")
                 - LogTotal(LogOf(u), "savings_deposit")
          /\ userBalances[u].savings = LogTotal(LogOf(u), "savings_deposit")

C27_Witness ==
    /\ resp.action = "send-payment" /\ resp.ok /\ resp.amount > 0
    /\ CountOf(LogOf(resp.userId), "ubi_claim") = 1
    /\ CountOf(LogOf(resp.userId), "payment") = 1
    /\ userBalances[resp.userId].gBalance < 0

(***************************************************************************)
(* C28.  Connecting a wallet is idempotent on balances: it creates a       *)
(* zero-balance account only for a user who has none, and for a user who   *)
(* has an account it leaves spendableBalance, savingsPrincipal, lastClaim  *)
(* and the transaction log unchanged, whatever came before.                *)
(***************************************************************************)
C28_ConnectKeepsAccount ==
    [][resp'.action = "connect-human-wallet" =>
          LET u == resp'.userId
          IN  /\ resp'.ok
              /\ transactions' = transactions
              /\ \A v \in DOMAIN userBalances : 
                     v \in DOMAIN userBalances'
                     /\ userBalances'[v] = userBalances[v]
              /\ DOMAIN userBalances' = DOMAIN userBalances \cup {u}
              /\ u \notin DOMAIN userBalances =>
                     /\ userBalances'[u].gBalance = 0
                     /\ userBalances'[u].savings = 0
                     /\ userBalances'[u].lastClaim = NoTime]_vars

C28_Witness ==
    /\ resp.action = "connect-human-wallet" /\ resp.ok
    /\ userBalances[resp.userId].gBalance > 0
    /\ userBalances[resp.userId].savings > 0
    /\ Len(LogOf(resp.userId)) = 2

(***************************************************************************)
(* C30.  Every ledger operation issued for user A leaves the balance       *)
(* record, the lastClaim and the transaction log of every other user B     *)
(* unchanged, in any sequence and interleaving of operations.              *)
(***************************************************************************)
C30_OtherUsersUntouched ==
    [][resp'.action \in LedgerActions =>
          \A b \in Users \ {resp'.userId} :
              /\ b \in DOMAIN userBalances <=> b \in DOMAIN userBalances'
              /\ b \in DOMAIN userBalances =>
                     userBalances'[b] = userBalances[b]
              /\ b \in DOMAIN transactions <=> b \in DOMAIN transactions'
              /\ b \in DOMAIN transactions =>
                     transactions'[b] = transactions[b]]_vars

\* a request of one user was served while the other user, who has an account
\* and a log, had a request suspended
C30_Witness ==
    /\ resp.action \in LedgerActions /\ resp.ok
    /\ \E b \in Users \ {resp.userId} :
          /\ b \in DOMAIN userBalances
          /\ LogOf(b) # <<>>
          /\ \E s \in Slots : inflight[s] # NoReq /\ inflight[s].userId = b

=============================================================================
